---- MODULE Spec2Model ----
(***************************************************************************)
(* Cache-backed collection layer of the country directory:                 *)
(* CountryCollector, CurrencyRatesCollector, WeatherCollector,             *)
(* NewsCollector and the Collectors orchestrator of collectors/collector.py *)
(* running over a file cache with modification times.                      *)
(*                                                                         *)
(* Strings whose characters matter (names, file names) are sequences of    *)
(* one-character strings, so that str.lower() is computed per character.   *)
(***************************************************************************)
EXTENDS Integers, Sequences, FiniteSets, TLC

\* ------------------------------------------------------------------ bounds
\* Clock values are 0..MaxTime.
MaxTime == 1
\* TTL values of the settings are drawn from 0..MaxTTL.
MaxTTL == 1
\* Number of program runs (Collectors.collect calls) followed.
MaxRuns == 2

\* ------------------------------------------------------------- strings
\* the lower-case letter of each upper-case letter
LowerMap ==
    [A |-> "a", B |-> "b", C |-> "c", D |-> "d", E |-> "e", F |-> "f", G |-> "g",
     H |-> "h", I |-> "i", J |-> "j", K |-> "k", L |-> "l", M |-> "m", N |-> "n",
     O |-> "o", P |-> "p", Q |-> "q", R |-> "r", S |-> "s", T |-> "t", U |-> "u",
     V |-> "v", W |-> "w", X |-> "x", Y |-> "y", Z |-> "z"]

LowerChar(ch) == IF ch \in DOMAIN LowerMap THEN LowerMap[ch] ELSE ch

\* the file name built without .lower()
LowerOmitted(s) == s

\* str.lower()
RECURSIVE Lower(_)
Lower(s) == IF s = <<>> THEN <<>> ELSE <<LowerChar(Head(s))>> \o Lower(Tail(s))

\* ------------------------------------------------------------ locations
LocationDTO(country, capital, alpha2code) ==
    [country |-> country, capital |-> capital, alpha2code |-> alpha2code]

Aland     == LocationDTO(<<"A","l","a","n","d">>,
                         <<"M","a","r","i","e","h","a","m","n">>,
                         <<"A","X">>)
\* "U+00E7" stands for the one character c-cedilla, outside ASCII
Curacao   == LocationDTO(<<"C","u","r","a","U+00E7","a","o">>,
                         <<"W","i","l","l","e","m","s","t","a","d">>,
                         <<"C","W">>)
NoLocation == LocationDTO(<<>>, <<>>, <<>>)

Locations == {Aland, Curacao}

\* ------------------------------------------------------------- values
\* Python values that flow through collect: None, a JSON list, a JSON
\* object, a frozenset of LocationDTO.
NoneVal      == [t |-> "None"]
JList(items) == [t |-> "list", v |-> items]
JDict(d)     == [t |-> "dict", v |-> d]
EmptyDict    == [t |-> "dict", v |-> <<>>]
LocSet(S)    == [t |-> "frozenset", v |-> S]

\* `if result is not None:` in place of `if result:`
TruthyNotNone(x) == x.t # "None"

\* truth value of `if result:`
Truthy(x) ==
    CASE x.t = "None"      -> FALSE
      [] x.t = "list"      -> Len(x.v) > 0
      [] x.t = "dict"      -> DOMAIN x.v # {}
      [] x.t = "frozenset" -> x.v # {}

\* json.dumps with ensure_ascii (the default): a character outside ASCII is
\* written as its \uXXXX escape
EscChar(ch) == IF ch = "U+00E7" THEN "\\u00e7" ELSE ch

\* json.loads: an escape is read as the character it names
UnescChar(ch) == IF ch = "\\u00e7" THEN "U+00E7" ELSE ch

\* the strings of a document as json.dumps spells them
EscDoc(x) ==
    CASE x.t = "list" ->
            JList([i \in DOMAIN x.v |->
                     [f \in DOMAIN x.v[i] |->
                         [j \in DOMAIN x.v[i][f] |-> EscChar(x.v[i][f][j])]]])
      [] x.t = "dict" /\ DOMAIN x.v # {} ->
            JDict([q |-> [j \in DOMAIN x.v.q |-> EscChar(x.v.q[j])], at |-> x.v.at])
      [] OTHER -> x

\* the strings of a spelled document as json.loads reads them
UnescDoc(x) ==
    CASE x.t = "list" ->
            JList([i \in DOMAIN x.v |->
                     [f \in DOMAIN x.v[i] |->
                         [j \in DOMAIN x.v[i][f] |-> UnescChar(x.v[i][f][j])]]])
      [] x.t = "dict" /\ DOMAIN x.v # {} ->
            JDict([q |-> [j \in DOMAIN x.v.q |-> UnescChar(x.v.q[j])], at |-> x.v.at])
      [] OTHER -> x

\* file contents: the text of an opened-for-write file before the write,
\* or the text json.dumps produced (json: the document as spelled in the text)
EmptyText    == [t |-> "text", empty |-> TRUE,  json |-> NoneVal]
Dumps(x)     == [t |-> "text", empty |-> FALSE, json |-> EscDoc(x)]
\* json.loads: fails on the empty text
LoadsFails(c) == c.empty

\* json.loads leaving the escapes of the text as they are spelled
LoadsRaw(c)   == c.json

Loads(c)      == UnescDoc(c.json)

\* ------------------------------------------------------------ collectors
Category == {"country", "currency", "weather", "news"}
PerLocation == {"weather", "news"}

Str_country  == <<"c","o","u","n","t","r","y">>
Str_currency == <<"c","u","r","r","e","n","c","y","_","r","a","t","e","s">>

\* the filename argument derived from a location in collect and in read
Filename(c, loc) ==
    CASE c = "weather" -> Lower(loc.capital \o <<"_">> \o loc.alpha2code)
      [] c = "news"    -> Lower(loc.country)
      [] OTHER         -> <<>>

\* get_file_path called without its filename argument (the default "")
get_file_path_default(c, filename) ==
    CASE c = "country"  -> [dir |-> "",        file |-> Str_country]
      [] c = "currency" -> [dir |-> "",        file |-> Str_currency]
      [] c = "weather"  -> [dir |-> "weather", file |-> <<>>]
      [] c = "news"     -> [dir |-> "news",    file |-> <<>>]

\* get_file_path of each collector: directory below MEDIA_PATH and file stem
get_file_path(c, filename) ==
    CASE c = "country"  -> [dir |-> "",        file |-> Str_country]
      [] c = "currency" -> [dir |-> "",        file |-> Str_currency]
      [] c = "weather"  -> [dir |-> "weather", file |-> filename]
      [] c = "news"     -> [dir |-> "news",    file |-> filename]

\* Filename tabulated over the model's collectors and locations
KeyTable ==
    [k \in Category \X (Locations \cup {NoLocation}) |-> Filename(k[1], k[2])] @@ <<>>

KeyOf(c, loc) == KeyTable[<<c, loc>>]

\* the path collect and read use for a location
PathOf(c, loc) == get_file_path(c, KeyOf(c, loc))


\* ------------------------------------------------------ remote providers
\* the requests with the currency client asked for another base than its
\* default
RequestOtherBase(c, loc) ==
    CASE c = "weather"  -> loc.capital \o <<",">> \o loc.alpha2code
      [] c = "news"     -> loc.country
      [] c = "currency" -> <<"u","s","d">>
      [] OTHER          -> <<>>

\* the request string each collector hands to its client
Request(c, loc) ==
    CASE c = "weather"  -> loc.capital \o <<",">> \o loc.alpha2code
      [] c = "news"     -> loc.country
      [] c = "currency" -> <<"r","u","b">>
      [] OTHER          -> <<>>

\* one element of the provider's country list, with the fields collect uses
Item(loc) == [name |-> loc.country, capital |-> loc.capital,
              alpha2code |-> loc.alpha2code]

\* the provider's lists: country names and codes are unique within a list
CountryLists == { <<Item(Aland)>>,
                  <<Item(Aland), Item(Curacao)>> }

\* what a client call can return at time t: None (non-success status), an
\* empty document, or a document; a transport failure raises instead
Responses(c, loc, t) ==
    IF c = "country"
    THEN {NoneVal, JList(<<>>)} \cup {JList(l) : l \in CountryLists}
    ELSE {NoneVal, EmptyDict, JDict([q |-> Request(c, loc), at |-> t])}

\* the provider answered with data (neither None nor an empty document)
IsData(r) == r \notin {NoneVal, JList(<<>>), EmptyDict}

\* ------------------------------------------------------------------ state
VARIABLES
    now,      \* the clock
    ttl,      \* settings: CACHE_TTL_* per category
    files,    \* path -> [mtime, content] of every existing cache file
    dirs,     \* existing sub-directories of MEDIA_PATH
    opc,      \* position of Collectors.collect
    co,       \* per collector: the state of its collect() coroutine
    raised,   \* exception that left Collectors.collect in this run, or ""
    snap,     \* files as they were when this run started
    calls,    \* client calls made in this run
    runs      \* number of runs started

vars == <<now, ttl, files, dirs, opc, co, raised, snap, calls, runs>>

\* pc: position in collect; arg: the locations argument; todo: locations the
\* for loop has not reached; loc: the loop variable; result: the local `result`
Off == [pc |-> "off", arg |-> NoneVal, todo |-> {}, loc |-> NoLocation, result |-> NoneVal]

Init ==
    /\ now = 0
    /\ ttl \in [Category -> 0..MaxTTL]
    /\ files = <<>>
    /\ dirs = {}
    /\ opc = "idle"
    /\ co = [c \in Category |-> Off]
    /\ raised = ""
    /\ snap = <<>>
    /\ calls = {}
    /\ runs = 0

\* ---------------------------------------------------------- cache store
\* every collector returning CACHE_TTL_COUNTRY
get_cache_ttl_country(c) == ttl["country"]

\* get_cache_ttl of each collector
get_cache_ttl(c) == ttl[c]

Exists(path) == path \in DOMAIN files

\* the staleness predicate: no file, or its age has reached the TTL
isStale(path, d) ==
    \/ ~Exists(path)
    \/ now - files[path].mtime >= d

\* BaseCollector.cache_invalid(**kwargs) of collector c
cache_invalid(c, filename) == isStale(get_file_path(c, filename), get_cache_ttl(c))

\* aiofiles.open(path, mode="w"): creates or truncates the file
Truncated(path) == (path :> [mtime |-> now, content |-> EmptyText]) @@ files

\* file.write(text) and close
Written(path, text) == (path :> [mtime |-> now, content |-> text]) @@ files

\* --------------------------------------------------------- collect steps
\* a collect that tests the same key again instead of moving on
AfterKeyRetry(c) == "check"

\* where collect goes once the current key needs nothing more
AfterKey(c) ==
    CASE c = "country"  -> "readback"
      [] c = "currency" -> "done"
      [] OTHER          -> "pick"

\* an exception leaves the coroutine; gather / run_until_complete re-raise
\* it and the finally clause closes the loop
Raise(c, exc) ==
    /\ co' = [co EXCEPT ![c].pc = "raised", ![c].result = NoneVal]
    /\ opc' = "closed"
    /\ raised' = exc

Running(c) == opc \in {"gather", "weather", "news", "call"} /\ co[c].pc \notin {"off", "done", "raised"}

\* collect without the cache_invalid test: every key is fetched
CheckOmitted(c) ==
    /\ Running(c) /\ co[c].pc = "check"
    /\ co' = [co EXCEPT ![c].pc = "fetch"]
    /\ UNCHANGED <<now, ttl, files, dirs, opc, raised, snap, calls, runs>>

\* `if await self.cache_invalid(...)`
Check(c) ==
    /\ Running(c) /\ co[c].pc = "check"
    /\ co' = [co EXCEPT ![c].pc =
                IF cache_invalid(c, KeyOf(c, co[c].loc)) THEN "fetch" ELSE AfterKey(c)]
    /\ UNCHANGED <<now, ttl, files, dirs, opc, raised, snap, calls, runs>>

\* `result = await self.client.get_...(...)` returning a value, then `if result:`
Fetch(c) ==
    /\ Running(c) /\ co[c].pc = "fetch"
    /\ \E r \in Responses(c, co[c].loc, now) :
        /\ calls' = calls \cup {[c |-> c, loc |-> co[c].loc,
                                 out |-> IF IsData(r) THEN "ok" ELSE "absent",
                                 val |-> IF IsData(r) THEN r ELSE NoneVal]}
        /\ co' = [co EXCEPT ![c].pc = IF Truthy(r) THEN "open" ELSE AfterKey(c),
                            ![c].result = IF Truthy(r) THEN r ELSE NoneVal]
    /\ UNCHANGED <<now, ttl, files, dirs, opc, raised, snap, runs>>

\* NewsClient._request failing at transport level (session.get raises): no
\* handler in the client or in collect, the exception leaves collect
FetchError(c) ==
    /\ c = "news"
    /\ Running(c) /\ co[c].pc = "fetch"
    /\ calls' = calls \cup {[c |-> c, loc |-> co[c].loc, out |-> "error", val |-> NoneVal]}
    /\ Raise(c, "ClientError")
    /\ UNCHANGED <<now, ttl, files, dirs, snap, runs>>

\* the same for the country, currency and weather clients, whose fetch lets
\* transport-level failures through as errors
FetchErrorBase(c) ==
    /\ c # "news"
    /\ Running(c) /\ co[c].pc = "fetch"
    /\ calls' = calls \cup {[c |-> c, loc |-> co[c].loc, out |-> "error", val |-> NoneVal]}
    /\ Raise(c, "ClientError")
    /\ UNCHANGED <<now, ttl, files, dirs, snap, runs>>

\* `async with aiofiles.open(path, mode="w") as file`
OpenW(c) ==
    /\ Running(c) /\ co[c].pc = "open"
    /\ LET path == PathOf(c, co[c].loc)
       IN  IF path.dir = "" \/ path.dir \in dirs
           THEN /\ files' = Truncated(path)
                /\ co' = [co EXCEPT ![c].pc = "write"]
                /\ UNCHANGED <<opc, raised>>
           ELSE /\ Raise(c, "FileNotFoundError")
                /\ UNCHANGED files
    /\ UNCHANGED <<now, ttl, dirs, snap, calls, runs>>

\* `await file.write(result_str)` with result_str = json.dumps(result)
WriteFile(c) ==
    /\ Running(c) /\ co[c].pc = "write"
    /\ files' = Written(PathOf(c, co[c].loc), Dumps(co[c].result))
    /\ co' = [co EXCEPT ![c].pc = AfterKey(c), ![c].result = NoneVal]
    /\ UNCHANGED <<now, ttl, dirs, opc, raised, snap, calls, runs>>

\* a set built from the first element of the decoded list only
LocationsOfHead(items) ==
    {LocationDTO(items[1].name, items[1].capital, items[1].alpha2code)}

\* the frozenset CountryCollector.collect builds from the decoded list
LocationsOf(items) ==
    {LocationDTO(items[i].name, items[i].capital, items[i].alpha2code) : i \in DOMAIN items}

\* CountryCollector.collect, from "получение данных из кэша" to its return
ReadBack ==
    /\ Running("country") /\ co["country"].pc = "readback"
    /\ LET path == get_file_path("country", <<>>)
       IN  IF ~Exists(path)
           THEN Raise("country", "FileNotFoundError")
           ELSE IF LoadsFails(files[path].content)
           THEN Raise("country", "JSONDecodeError")
           ELSE LET result == Loads(files[path].content)
                IN  /\ co' = [co EXCEPT !["country"].pc = "done",
                                        !["country"].result =
                                            IF Truthy(result) THEN LocSet(LocationsOf(result.v))
                                            ELSE NoneVal]
                    /\ UNCHANGED <<opc, raised>>
    /\ UNCHANGED <<now, ttl, files, dirs, snap, calls, runs>>

\* a collect that goes over every known location whatever set it is given
BeginAllLocations(c) ==
    /\ c \in PerLocation
    /\ Running(c) /\ co[c].pc = "mkdir"
    /\ dirs' = dirs \cup {get_file_path(c, <<>>).dir}
    /\ co' = [co EXCEPT ![c].pc = "pick", ![c].todo = Locations]
    /\ UNCHANGED <<now, ttl, files, opc, raised, snap, calls, runs>>

\* Weather/News collect up to the `for location in locations`
Begin(c) ==
    /\ c \in PerLocation
    /\ Running(c) /\ co[c].pc = "mkdir"
    /\ dirs' = dirs \cup {get_file_path(c, <<>>).dir}
    /\ IF co[c].arg.t = "frozenset"
       THEN /\ co' = [co EXCEPT ![c].pc = "pick", ![c].todo = co[c].arg.v]
            /\ UNCHANGED <<opc, raised>>
       ELSE Raise(c, "TypeError")
    /\ UNCHANGED <<now, ttl, files, snap, calls, runs>>

\* the for loop taking the next location, in the set's iteration order
Pick(c) ==
    /\ c \in PerLocation
    /\ Running(c) /\ co[c].pc = "pick"
    /\ IF co[c].todo = {}
       THEN co' = [co EXCEPT ![c].pc = "done", ![c].loc = NoLocation]
       ELSE \E l \in co[c].todo :
                co' = [co EXCEPT ![c].pc = "check", ![c].loc = l,
                                 ![c].todo = co[c].todo \ {l}]
    /\ UNCHANGED <<now, ttl, files, dirs, opc, raised, snap, calls, runs>>

\* ----------------------------------------------------------- orchestrator
\* Collectors.collect entered (a new run of the program): gather() starts
\* both first-stage coroutines
Start ==
    /\ opc \in {"idle", "closed"}
    /\ opc' = "gather"
    /\ co' = [c \in Category |->
                IF c \in {"currency", "country"} THEN [Off EXCEPT !.pc = "check"] ELSE Off]
    /\ raised' = ""
    /\ snap' = files
    /\ calls' = {}
    /\ runs < MaxRuns
    /\ runs' = runs + 1
    /\ UNCHANGED <<now, ttl, files, dirs>>

\* the second stage started as soon as CurrencyRatesCollector is done
GatherDoneEarly ==
    /\ opc = "gather"
    /\ co["currency"].pc = "done"
    /\ opc' = "weather"
    /\ co' = [co EXCEPT !["weather"] = [Off EXCEPT !.pc = "mkdir",
                                                   !.arg = co["country"].result]]
    /\ UNCHANGED <<now, ttl, files, dirs, raised, snap, calls, runs>>

\* gather() returned; WeatherCollector().collect(results[1]) is started
GatherDone ==
    /\ opc = "gather"
    /\ co["currency"].pc = "done" /\ co["country"].pc = "done"
    /\ opc' = "weather"
    /\ co' = [co EXCEPT !["weather"] = [Off EXCEPT !.pc = "mkdir",
                                                   !.arg = co["country"].result]]
    /\ UNCHANGED <<now, ttl, files, dirs, raised, snap, calls, runs>>

\* NewsCollector().collect started while WeatherCollector().collect is
\* still at work
WeatherDoneEarly ==
    /\ opc = "weather"
    /\ co["weather"].pc \notin {"off", "raised"}
    /\ opc' = "news"
    /\ co' = [co EXCEPT !["news"] = [Off EXCEPT !.pc = "mkdir",
                                                !.arg = co["country"].result]]
    /\ UNCHANGED <<now, ttl, files, dirs, raised, snap, calls, runs>>

\* NewsCollector().collect(results[1]) is started
WeatherDone ==
    /\ opc = "weather"
    /\ co["weather"].pc = "done"
    /\ opc' = "news"
    /\ co' = [co EXCEPT !["news"] = [Off EXCEPT !.pc = "mkdir",
                                                !.arg = co["country"].result]]
    /\ UNCHANGED <<now, ttl, files, dirs, raised, snap, calls, runs>>

\* shutdown_asyncgens and loop.close()
NewsDone ==
    /\ opc = "news"
    /\ co["news"].pc = "done"
    /\ opc' = "closed"
    /\ UNCHANGED <<now, ttl, files, dirs, co, raised, snap, calls, runs>>

\* time passes between two runs of the program; the first run starts at 0
\* and a run is short against the TTLs
Tick ==
    /\ now < MaxTime
    /\ opc = "closed"
    /\ now' = now + 1
    /\ UNCHANGED <<ttl, files, dirs, opc, co, raised, snap, calls, runs>>

Step(c) == Check(c) \/ Fetch(c) \/ FetchError(c) \/ FetchErrorBase(c)
              \/ OpenW(c) \/ WriteFile(c) \/ Begin(c) \/ Pick(c)

Next ==
    \/ Start
    \/ \E c \in Category : Step(c)
    \/ ReadBack
    \/ GatherDone
    \/ WeatherDone
    \/ NewsDone
    \/ Tick

Spec == Init /\ [][Next]_vars

\* a step of the running pass: the event loop resumes a coroutine whose
\* awaited call has returned, or Collectors.collect moves to its next line
Progress ==
    \/ \E c \in Category : Step(c)
    \/ ReadBack
    \/ GatherDone
    \/ WeatherDone
    \/ NewsDone

\* settings with one TTL for all four categories
InitOneTTL == Init /\ \A c \in Category : ttl[c] = ttl["country"]

\* the pass under an event loop that keeps running what is ready and with
\* remote calls that all return
SpecFair == InitOneTTL /\ [][Next]_vars /\ WF_vars(Progress)

\* MEDIA_PATH as found by the first run when it already holds a country.json
\* with an empty list: the case of `if result:` being false after the
\* json.loads of CountryCollector.collect
InitSeeded ==
    /\ now = 0
    /\ ttl \in [Category -> 0..MaxTTL]
    /\ files = (get_file_path("country", <<>>) :>
                    [mtime |-> 0, content |-> Dumps(JList(<<>>))])
    /\ dirs = {}
    /\ opc = "idle"
    /\ co = [c \in Category |-> Off]
    /\ raised = ""
    /\ snap = <<>>
    /\ calls = {}
    /\ runs = 0

SpecSeeded == InitSeeded /\ [][Next]_vars

\* ----------------------------------------------- collect called directly
\* the base currencies a caller may name
Bases == {<<"r","u","b">>, <<"u","s","d">>}

\* the keyword arguments of a collect(**kwargs) call
Kwargs(b) == [t |-> "kwargs", base |-> b]

\* one collector's collect awaited on its own, as the tests do: Weather and
\* News with a set of locations, CurrencyRates with a base keyword
Call(c) ==
    /\ opc \in {"idle", "closed"}
    /\ opc' = "call"
    /\ \E S \in SUBSET Locations : \E b \in Bases :
          co' = [d \in Category |->
                    IF d # c THEN Off
                    ELSE IF c \in PerLocation
                         THEN [Off EXCEPT !.pc = "mkdir", !.arg = LocSet(S)]
                         ELSE IF c = "currency"
                              THEN [Off EXCEPT !.pc = "check", !.arg = Kwargs(b)]
                              ELSE [Off EXCEPT !.pc = "check"]]
    /\ raised' = ""
    /\ snap' = files
    /\ calls' = {}
    /\ runs < MaxRuns
    /\ runs' = runs + 1
    /\ UNCHANGED <<now, ttl, files, dirs>>

\* the awaited collect returned to its caller
CallDone ==
    /\ opc = "call"
    /\ \E c \in Category : co[c].pc = "done"
    /\ opc' = "closed"
    /\ UNCHANGED <<now, ttl, files, dirs, co, raised, snap, calls, runs>>

NextCall ==
    \/ \E c \in Category : Call(c)
    \/ \E c \in Category : Step(c)
    \/ ReadBack
    \/ CallDone
    \/ Tick

SpecCall == Init /\ [][NextCall]_vars

\* ------------------------------------------------------------------ read
Raises(exc) == [err |-> exc, val |-> NoneVal]
Returns(x)  == [err |-> "", val |-> x]

\* the typed record a read builds from a decoded document
DTO(c, result) ==
    IF c = "country"
    THEN [t |-> "list",
          v |-> [i \in DOMAIN result.v |->
                    [t |-> "dto", cls |-> "CountryDTO", name |-> result.v[i].name,
                     capital |-> result.v[i].capital,
                     alpha2code |-> result.v[i].alpha2code]]]
    ELSE [t |-> "dto", cls |-> c, q |-> result.v.q, at |-> result.v.at]

\* <Collector>.read over the files fs: opens the file for reading, decodes it
ReadIn(fs, c, loc) ==
    LET path == PathOf(c, loc)
    IN  IF path \notin DOMAIN fs
        THEN Raises("FileNotFoundError")
        ELSE LET content == fs[path].content
             IN  IF c \in PerLocation
                 THEN IF LoadsFails(content)
                      THEN Raises("JSONDecodeError")
                      ELSE IF Truthy(Loads(content))
                           THEN Returns(DTO(c, Loads(content)))
                           ELSE Returns(NoneVal)
                 ELSE IF content.empty
                      THEN Returns(NoneVal)
                      ELSE Returns(DTO(c, Loads(content)))

\* a read that returns None when there is no file
ReadNoneIfMissing(c, loc) ==
    IF PathOf(c, loc) \in DOMAIN files THEN ReadIn(files, c, loc) ELSE Returns(NoneVal)

read(c, loc) == ReadIn(files, c, loc)

\* ------------------------------------------------------------ properties
FirstStage == {"currency", "country"}

\* the locations a collector can be asked about
LocsOf(c) == IF c \in PerLocation THEN Locations ELSE {NoLocation}

\* the entry of a path in a file map, NoneVal when there is no file
Entry(fs, path) == IF path \in DOMAIN fs THEN fs[path] ELSE NoneVal

\* the client calls of this run that concern the key of (c, loc)
CallsFor(c, loc) == {k \in calls : k.c = c /\ PathOf(k.c, k.loc) = PathOf(c, loc)}

\* C1: a client call that came back empty or failed leaves the entry of its
\* key as it was when the run started: the same payload and the same
\* last-write time (so its age keeps growing), or still no file.
C1_FailedRefreshKeepsEntry ==
    \A k \in calls :
        (~\E o \in CallsFor(k.c, k.loc) : o.out = "ok")
        => Entry(files, PathOf(k.c, k.loc)) = Entry(snap, PathOf(k.c, k.loc))

\* every collector had an empty answer for a key that held an entry
C1_Witness ==
    /\ opc = "closed"
    /\ \A c \in Category :
         \E k \in calls : /\ k.c = c /\ k.out = "absent"
                          /\ PathOf(k.c, k.loc) \in DOMAIN snap
                          /\ ~snap[PathOf(k.c, k.loc)].content.empty
                          /\ files[PathOf(k.c, k.loc)] = snap[PathOf(k.c, k.loc)]

\* C2 (as claimed): whatever the cache holds, a collect whose client calls
\* came back (with None, an empty document or data) does not raise to its
\* caller.
C2_CollectNeverRaises ==
    \A c \in Category :
        co[c].pc = "raised" => \E k \in calls : k.c = c /\ k.out = "error"

\* C3: one collect makes at most one client call per key; and with a positive
\* TTL, a collect that follows one whose refresh of a key succeeded, before
\* the TTL has run out, makes no client call for that key and does not write
\* it.
C3_SecondCollectIsNoOp ==
    \A c \in Category : \A loc \in LocsOf(c) :
        LET path == PathOf(c, loc)
        IN  /\ Cardinality(CallsFor(c, loc)) <= 1
            /\ (/\ ttl[c] > 0
                /\ path \in DOMAIN snap
                /\ now - snap[path].mtime < ttl[c])
               => /\ CallsFor(c, loc) = {}
                  /\ files[path] = snap[path]

\* a second run has gone through all four collectors without a single call
C3_Witness ==
    /\ runs = 2 /\ opc = "closed" /\ raised = ""
    /\ calls = {}
    /\ \A c \in Category : co[c].pc = "done" /\ ttl[c] > 0
    /\ \A c \in Category : \E loc \in LocsOf(c) :
          /\ PathOf(c, loc) \in DOMAIN snap
          /\ ~snap[PathOf(c, loc)].content.empty

\* C4: Weather and News collect are entered only once Country collect has
\* returned, and when the Country client returned data in this run the set
\* they are given is a non-empty set of locations.
C4_CountryBeforeDependents ==
    \A c \in PerLocation :
        co[c].pc # "off"
        => /\ co["country"].pc = "done"
           /\ (\E k \in calls : k.c = "country" /\ k.out = "ok")
              => (co[c].arg.t = "frozenset" /\ co[c].arg.v # {})

\* News collect is at work on the locations of a list fetched in this run
C4_Witness ==
    /\ opc = "news" /\ co["news"].pc = "check"
    /\ \E k \in calls : k.c = "country" /\ k.out = "ok"
    /\ co["weather"].pc = "done"
    /\ co["news"].arg.v = {Aland, Curacao}

\* C5 (as claimed): when a first-stage client call comes back without data,
\* the other first-stage collect still runs to its end and the Weather/News
\* stage is entered.
C5_FirstStageFailureContained ==
    (opc = "closed")
    => \A k \in calls :
          (k.c \in FirstStage /\ k.out = "absent")
          => /\ \A c \in FirstStage \ {k.c} : co[c].pc = "done"
             /\ co["weather"].pc # "off"

\* the TTL values the staleness predicate is tried with
AnyTTL == (0 - 1) .. (MaxTTL + 1)

\* C6: a key that has no file is stale for every TTL, and read of it fails
\* with the missing-file error instead of returning anything.
C6_NeverWrittenKey ==
    \A c \in Category : \A loc \in LocsOf(c) :
        PathOf(c, loc) \notin DOMAIN files
        => /\ \A d \in AnyTTL : isStale(PathOf(c, loc), d)
           /\ read(c, loc) = Raises("FileNotFoundError")

\* a finished run after which one location has entries and the other none
C6_Witness ==
    /\ opc = "closed" /\ raised = ""
    /\ \A c \in PerLocation : /\ PathOf(c, Aland) \in DOMAIN files
                              /\ PathOf(c, Curacao) \notin DOMAIN files
                              /\ read(c, Curacao).err = "FileNotFoundError"
                              /\ read(c, Aland).err = ""

\* C7: in every collector the test that decides a refresh is the same: the
\* key is refreshed exactly when it has no file or the clock has reached
\* last-write time + the category's TTL.
C7_SingleStalenessPredicate ==
    [][\A c \in Category :
          (co[c].pc = "check" /\ co'[c].pc # "check")
          => LET path == PathOf(c, co[c].loc)
                 stale == \/ path \notin DOMAIN files
                          \/ now >= files[path].mtime + ttl[c]
             IN  /\ co'[c].pc \in {"fetch", AfterKey(c)}
                 /\ (co'[c].pc = "fetch") <=> stale]_vars

\* a refresh triggered exactly at last-write time + TTL
C7_Witness ==
    \E c \in Category :
        LET path == PathOf(c, co[c].loc)
        IN  /\ opc # "closed" /\ co[c].pc = "fetch" /\ runs = 2
            /\ path \in DOMAIN files
            /\ ~files[path].content.empty
            /\ ttl[c] > 0
            /\ now = files[path].mtime + ttl[c]

\* C8: when one Weather or News collect got data for location A and an empty
\* answer for location B, read(A) gives the record of the data just fetched
\* and read(B) gives what it gave before the run: the missing-file error if B
\* had no entry, B's earlier record otherwise; whichever was taken first.
C8_PartialFailure ==
    \A c \in PerLocation :
        co[c].pc = "done"
        => \A a \in calls : \A b \in calls :
              (/\ a.c = c /\ b.c = c /\ a.loc # b.loc
               /\ a.out = "ok" /\ b.out = "absent")
              => /\ read(c, a.loc) = Returns(DTO(c, a.val))
                 /\ read(c, b.loc) = ReadIn(snap, c, b.loc)
                 /\ PathOf(c, b.loc) \notin DOMAIN snap
                    => read(c, b.loc) = Raises("FileNotFoundError")

\* a run in which Weather failed for a location never written and News for a
\* location written before
C8_Witness ==
    /\ opc = "closed" /\ raised = ""
    /\ \E a \in calls : \E b \in calls :
          /\ a.c = "weather" /\ b.c = "weather" /\ a.out = "ok" /\ b.out = "absent"
          /\ PathOf("weather", b.loc) \notin DOMAIN snap
    /\ \E a \in calls : \E b \in calls :
          /\ a.c = "news" /\ b.c = "news" /\ a.out = "ok" /\ b.out = "absent"
          /\ PathOf("news", b.loc) \in DOMAIN snap
          /\ read("news", b.loc).err = ""

Key_mariehamn_ax == <<"m","a","r","i","e","h","a","m","n","_","a","x">>
Key_aland        == <<"a","l","a","n","d">>

\* the files of collector c's directory
FilesOf(fs, c) == {path \in DOMAIN fs : path.dir = c}

\* Weather or News collect has run over {Aland} with no entry of its own
\* before, and its client call returned data
AlandScenario(c) ==
    /\ co[c].pc = "done"
    /\ co[c].arg = LocSet({Aland})
    /\ FilesOf(snap, c) = {}
    /\ \E k \in calls : k.c = c /\ k.loc = Aland /\ k.out = "ok"

\* in the scenario collector c created the one file `key`, read of Aland
\* decodes what was fetched and read of another location finds no file
AlandOutcome(c, key) ==
    /\ FilesOf(files, c) = {[dir |-> c, file |-> key]}
    /\ \A k \in calls : (k.c = c /\ k.loc = Aland /\ k.out = "ok")
                        => read(c, Aland) = Returns(DTO(c, k.val))
    /\ read(c, Curacao) = Raises("FileNotFoundError")

\* C9 (as claimed): with the location set {("Aland","Mariehamn","AX")} Weather
\* and News each create exactly one key, mariehamn_ax.
C9_BothKeysMariehamnAx ==
    \A c \in PerLocation : AlandScenario(c) => AlandOutcome(c, Key_mariehamn_ax)

\* C9 (amended): Weather creates exactly the key mariehamn_ax (lower-cased
\* capital_alpha2code) and News exactly the key aland (lower-cased country
\* name); read derives the same key and fails for a location not in the set.
C9_OneKeyPerCollector ==
    /\ AlandScenario("weather") => AlandOutcome("weather", Key_mariehamn_ax)
    /\ AlandScenario("news")    => AlandOutcome("news", Key_aland)

\* both collectors have gone through the scenario in one run
C9_Witness ==
    /\ opc = "closed"
    /\ AlandScenario("weather") /\ AlandScenario("news")

\* C10 (as claimed): once the first stage is over, whatever the interleaving
\* was, each of its keys holds what the client answers of the run determine
\* (the fetched document, or the entry from before the run), and no path
\* belongs to two collectors.
C10_InterleavingIndependent ==
    /\ (opc \in {"weather", "news", "closed"} /\ \A k \in calls : k.out # "error")
       => \A c \in FirstStage :
             LET path == PathOf(c, NoLocation)
             IN  IF \E k \in calls : k.c = c /\ k.out = "ok"
                 THEN /\ path \in DOMAIN files
                      /\ \E k \in calls : /\ k.c = c /\ k.out = "ok"
                                          /\ files[path].content = Dumps(k.val)
                 ELSE Entry(files, path) = Entry(snap, path)
    /\ \A c1 \in Category : \A c2 \in Category \ {c1} :
          \A l1 \in LocsOf(c1) : \A l2 \in LocsOf(c2) : PathOf(c1, l1) # PathOf(c2, l2)

\* the cached text of (c, loc) is there but is not a document of the
\* category: an empty file, or an empty JSON list or object
Malformed(c, loc) ==
    /\ PathOf(c, loc) \in DOMAIN files
    /\ LET content == files[PathOf(c, loc)].content
       IN  content.empty \/ ~Truthy(Loads(content))

\* C11 (as claimed): after a run whose client calls all came back, read of a
\* key whose file exists but holds no document of its category fails with a
\* decode error; it never returns None.
C11_ReadFailsOnMalformed ==
    (opc = "closed" /\ \A k \in calls : k.out # "error")
    => \A c \in Category : \A loc \in LocsOf(c) :
          Malformed(c, loc) => read(c, loc) = Raises("JSONDecodeError")

\* C12: once a collect has returned, every key for which its client returned
\* a document P in this run holds P as received, and read of that key
\* returns exactly the record built from P.
C12_RoundTrip ==
    \A c \in Category :
        co[c].pc = "done"
        => \A k \in calls :
              (k.c = c /\ k.out = "ok")
              => /\ PathOf(c, k.loc) \in DOMAIN files
                 /\ Loads(files[PathOf(c, k.loc)].content) = k.val
                 /\ read(c, k.loc) = Returns(DTO(c, k.val))

\* a run in which every collector stored a fetched document, among them
\* documents with a character outside ASCII
C12_Witness ==
    /\ opc = "closed" /\ raised = ""
    /\ \A c \in Category : \E k \in calls : k.c = c /\ k.out = "ok"
    /\ \E k \in calls : k.c = "news" /\ k.loc = Curacao /\ k.out = "ok"
    /\ \E k \in calls : k.c = "country" /\ Len(k.val.v) = 2

\* Weather or News collect is in progress, or has just ended, on the empty set
EmptySetCall(c) ==
    /\ c \in PerLocation
    /\ co[c].pc # "off"
    /\ co[c].arg = LocSet({})

\* C13 (as claimed): the first collect ever made, when it is Weather or News
\* collect with the empty set, makes no client call and leaves the storage
\* as it was before the call: no files and no directories.
C13_EmptySetLeavesStorage ==
    \A c \in PerLocation :
        (runs = 1 /\ EmptySetCall(c))
        => /\ calls = {}
           /\ files = <<>>
           /\ dirs = {}

\* C13 (amended): no step of Weather or News collect on the empty set makes a
\* client call, writes or touches a cache file, or raises; its only effect on
\* storage is that the collector's own directory exists afterwards.
C13_EmptySetNoCallNoWrite ==
    [][\A c \in PerLocation :
          (opc = "call" /\ EmptySetCall(c))
          => /\ calls' = calls
             /\ files' = files
             /\ dirs \subseteq dirs' /\ dirs' \subseteq dirs \cup {get_file_path(c, <<>>).dir}
             /\ co'[c].pc \in {"pick", "done"}
             /\ co'[c].pc = "done" => get_file_path(c, <<>>).dir \in dirs']_vars

\* News collect has returned from a call with the empty set that created its
\* directory, while Weather's files of an earlier call are as they were
C13_Witness ==
    /\ opc = "closed" /\ raised = ""
    /\ EmptySetCall("news") /\ co["news"].pc = "done"
    /\ calls = {}
    /\ dirs = {"weather", "news"}
    /\ files # <<>> /\ files = snap

\* the country list the Country file holds (empty when none can be decoded)
CachedCountries ==
    LET path == get_file_path("country", <<>>)
    IN  IF path \in DOMAIN files /\ ~LoadsFails(files[path].content)
           /\ Loads(files[path].content).t = "list"
        THEN Loads(files[path].content).v
        ELSE <<>>

\* C14: when CountryCollector.collect has returned and the Country file
\* holds a non-empty list, the value returned is a set with exactly one
\* location (name, capital, alpha2code) per cached country, and read returns
\* a list with one record per cached country, in the order of the file.
C14_CountryResultMatchesCache ==
    (co["country"].pc = "done" /\ CachedCountries # <<>>)
    => LET L   == CachedCountries
           res == co["country"].result
           rd  == read("country", NoLocation)
       IN  /\ res.t = "frozenset"
           /\ Cardinality(res.v) = Len(L)
           /\ \A i \in DOMAIN L :
                 \E l \in res.v : /\ l.country = L[i].name
                                  /\ l.capital = L[i].capital
                                  /\ l.alpha2code = L[i].alpha2code
           /\ rd.err = "" /\ rd.val.t = "list"
           /\ Len(rd.val.v) = Len(L)
           /\ \A i \in DOMAIN L : /\ rd.val.v[i].name = L[i].name
                                  /\ rd.val.v[i].capital = L[i].capital
                                  /\ rd.val.v[i].alpha2code = L[i].alpha2code

\* a second run whose Country refresh came back empty returned the two
\* locations of the list cached by the first run
C14_Witness ==
    /\ runs = 2 /\ co["country"].pc = "done"
    /\ \E k \in calls : k.c = "country" /\ k.out = "absent"
    /\ Len(CachedCountries) = 2
    /\ co["country"].result = LocSet({Aland, Curacao})
    /\ Len(read("country", NoLocation).val.v) = 2

\* C15 (as claimed): once a run has ended, however it ended, every file the
\* staleness predicate reports fresh holds a document received from the
\* client, never the empty text of an unfinished write.
C15_FreshEntryIsComplete ==
    (opc = "closed" /\ \A k \in calls : k.out # "error")
    => \A c \in Category : \A loc \in LocsOf(c) :
          (Exists(PathOf(c, loc)) /\ ~cache_invalid(c, KeyOf(c, loc)))
          => /\ ~files[PathOf(c, loc)].content.empty
             /\ IsData(Loads(files[PathOf(c, loc)].content))

\* the key of (c, loc) was stale when this run started; no one but c's own
\* collect writes it and the clock stands still during a run, so this is
\* what the test in collect sees when it reaches loc
StaleAtStart(c, loc) ==
    \/ PathOf(c, loc) \notin DOMAIN snap
    \/ now - snap[PathOf(c, loc)].mtime >= get_cache_ttl(c)

\* C16 (as claimed): when a Weather or News collect over a set of locations
\* has ended, every location of the set was reached, an absent or failed
\* answer for one of them notwithstanding; and when it returns, the client
\* has been called for exactly the locations whose key was stale.
C16_PerLocationIndependent ==
    \A c \in PerLocation :
        (/\ co[c].arg.t = "frozenset"
         /\ \A k \in calls : k.out = "error" => k.c = "news")
        => /\ co[c].pc \in {"done", "raised"} => co[c].todo = {}
           /\ (co[c].pc = "done" /\ opc # "closed")
              => \A loc \in co[c].arg.v :
                    (CallsFor(c, loc) # {}) <=> StaleAtStart(c, loc)

\* C17 (as claimed): whenever Weather or News collect has been entered, its
\* argument is the set of locations of the list the Country file holds; and
\* a run whose Country refresh failed (no data, or a failure of the call)
\* while a list was cached has handed the locations of that list to both
\* Weather and News collect.
C17_StaleListReachesDependents ==
    LET path == get_file_path("country", <<>>)
    IN  /\ \A c \in PerLocation :
              co[c].pc # "off"
              => co[c].arg = LocSet(LocationsOf(CachedCountries))
        /\ (/\ opc = "closed"
            /\ path \in DOMAIN snap /\ ~snap[path].content.empty
            /\ \E k \in calls : k.c = "country" /\ k.out # "ok"
            /\ \A k \in calls : k.out = "error" => k.c = "country")
           => \A c \in PerLocation :
                 co[c].arg = LocSet(LocationsOf(Loads(snap[path].content).v))

\* Collectors.collect is between its first line and the closing of the loop
InPass == opc \in {"gather", "weather", "news"}

\* C18: in a pass no key gets more than one client call, and, every client
\* call returning (with data, without, or with an error), a pass that has
\* started reaches the closing of the loop.
C18_OneCallPerKeyAndTermination ==
    /\ [](\A c \in Category : \A loc \in LocsOf(c) : Cardinality(CallsFor(c, loc)) <= 1)
    /\ (InPass ~> (opc = "closed"))

\* a pass has ended after one client call for each of the six keys
C18_Witness ==
    /\ opc = "closed" /\ raised = ""
    /\ co["news"].pc = "done" /\ co["news"].arg = LocSet(Locations)
    /\ \A c \in Category : \A loc \in LocsOf(c) : Cardinality(CallsFor(c, loc)) = 1
    /\ \E k \in calls : k.out = "absent"

\* the one path of the CurrencyRates collector
CurrencyPath == get_file_path("currency", <<>>)

\* exactly one rate table is kept: the only files directly under MEDIA_PATH
\* are the Country and the CurrencyRates file, and once collect has returned
\* after a client call with data, the CurrencyRates file holds that document
OneRateTable ==
    /\ \A path \in DOMAIN files :
          path.dir = "" => path.file \in {Str_country, Str_currency}
    /\ co["currency"].pc = "done"
       => \A k \in calls :
             (k.c = "currency" /\ k.out = "ok")
             => files[CurrencyPath].content = Dumps(k.val)

\* C19 (as claimed): a CurrencyRates collect called with base b asks the
\* client for the rates of base b, and one rate table is kept under the
\* single CurrencyRates key, replaced by the next successful write.
C19_BaseChangesRequest ==
    /\ \A k \in calls :
          (k.c = "currency" /\ k.out = "ok" /\ co["currency"].arg.t = "kwargs")
          => k.val.v.q = co["currency"].arg.base
    /\ OneRateTable

\* C19 (amended): whatever base a CurrencyRates collect is called with, the
\* client is asked for its default base, rub; one rate table is kept under
\* the single CurrencyRates key, replaced by the next successful write.
C19_BaseIgnored ==
    /\ \A k \in calls :
          (k.c = "currency" /\ k.out = "ok")
          => k.val.v.q = <<"r","u","b">>
    /\ OneRateTable

\* a second collect, called with base usd, has replaced the table cached by
\* the first with a newer table for rub
C19_Witness ==
    /\ runs = 2 /\ opc = "closed"
    /\ co["currency"].pc = "done"
    /\ co["currency"].arg = Kwargs(<<"u","s","d">>)
    /\ CurrencyPath \in DOMAIN snap /\ ~snap[CurrencyPath].content.empty
    /\ \E k \in calls : k.c = "currency" /\ k.out = "ok"
    /\ files[CurrencyPath].content # snap[CurrencyPath].content
    /\ Loads(files[CurrencyPath].content).v.q = <<"r","u","b">>

C21_SecondStageSequential ==
    /\ [](/\ co["news"].pc # "off" => co["weather"].pc = "done"
          /\ co["weather"].pc = "raised" => co["news"].pc = "off"
          /\ raised # "" => opc = "closed")
    /\ [][(co["news"].pc = "off" /\ co'["news"].pc # "off")
             => (opc = "weather" /\ co["weather"].pc = "done" /\ opc' = "news")]_vars

\* a second run in which Weather collect raised: News collect was not
\* entered and the loop is closed, while the News files written by the first
\* run, after its Weather collect, are as they were
C21_Witness ==
    /\ runs = 2 /\ opc = "closed"
    /\ co["weather"].pc = "raised" /\ raised # ""
    /\ co["news"].pc = "off"
    /\ FilesOf(files, "news") # {}
    /\ FilesOf(files, "weather") # {}
    /\ \A path \in FilesOf(files, "news") : files[path] = snap[path]

====
